---- MODULE Spec2Model ----
(***************************************************************************)
(* Quillium backend: the MCQ generation / validation / translation         *)
(* pipeline of backend/app/mcq_generator.py and the /process-pdf handler   *)
(* of backend/app/main.py.                                                 *)
(*                                                                         *)
(* Text values.  A Python str is a record                                  *)
(*     [b |-> content, c |-> casing, p |-> padding, n |-> length]          *)
(* b is the lower-cased, stripped content; c = 1 says the value is written *)
(* with capitals (so that it differs from its own .lower()), p = 1 says it *)
(* carries surrounding whitespace (so that it differs from its .strip()),  *)
(* n is the number of characters of the stripped content (smaller than the *)
(* full length of b when the value is a prefix cut out of b).  A JSON      *)
(* value that is not a string (null, a number) is NullV.                   *)
(***************************************************************************)
EXTENDS Integers, Sequences, FiniteSets, TLC

VARIABLES
    vIn,        \* validate_mcq: the raw MCQ handed to it
    vOut,       \* validate_mcq: its outcome (pending until it has run)
    entry,      \* which function the caller invoked
    pc,         \* position of the running invocation
    cred,       \* GEMINI_API_KEY is set (read once at import)
    upload,     \* /process-pdf: the uploaded file, [isPdf, size]
    text,       \* the text argument / the extracted PDF text
    genText,    \* the text make_mcqs hands to the generators
    language,   \* target language argument
    maxq,       \* max_questions / question_count argument
    gen,        \* outcome of the generation call, as json.loads left it
    english,    \* english_mcqs: the validated English list
    translated, \* translated_mcqs: the list the translation loop builds
    tr,         \* outcome of the latest translation call, as json.loads left it
    calls,      \* provider calls issued so far, in order
    mcqs,       \* what make_mcqs / translate_mcqs_to_language returned
    result,     \* what the invoked entry point returned
    outcome,    \* "none" | "returned" | "raised" | "hung" | "http400" | "http500" | "response"
    topic,        \* generate_short_form_script: the topic argument
    strict_mode,  \* generate_short_form_script: local strict_mode
    attempts,     \* generate_short_form_script: local attempts
    response,     \* generate_short_form_script: outcome of the latest provider call
    reason,       \* generate_short_form_script: why the latest script was rejected
    script        \* generate_short_form_script: the value it returned

vars == <<vIn, vOut, entry, pc, cred, upload, text, genText, language, maxq, gen,
          english, translated, tr, calls, mcqs, result, outcome,
          topic, strict_mode, attempts, response, reason, script>>

shortsVars == <<topic, strict_mode, attempts, response, reason, script>>

----------------------------------------------------------------------------
(* Text values *)

\* Number of characters of each content used in the model.
CharLen(b) ==
    CASE b = "" -> 0
      [] b = "ada lovelace" -> 12
      [] b = "grace hopper" -> 12
      [] b = "john mccarthy" -> 13
      [] b = "alan kay" -> 8
      [] b = "someone else" -> 12
      [] b = "alan turing" -> 11
      [] b = "isaac newton" -> 12
      [] b = "marie curie" -> 11
      [] b = "charles darwin" -> 14
      [] b = "london" -> 6
      [] b = "berlin" -> 6
      [] b = "tokyo" -> 5
      [] b = "beijing" -> 7
      [] b = "1945" -> 4
      [] b = "1969" -> 4
      [] b = "1776" -> 4
      [] b = "2001" -> 4
      [] b = "a related concept from the same field" -> 37
      [] b = "an important but different aspect" -> 33
      [] b = "a frequently confused alternative" -> 33
      [] b = "a similar but distinct element" -> 30
      [] b = "a different concept from the text" -> 33
      [] b = "an alternative interpretation" -> 29
      [] b = "related information" -> 19
      [] b = "none" -> 4
      [] b = "easy" -> 4
      [] b = "medium" -> 6
      [] b = "hard" -> 4
      [] b = "tricky" -> 6
      [] b = "english" -> 7
      [] b = "spanish" -> 7
      [] b = "who coined the term artificial intelligence?" -> 44
      [] b = "what is machine learning a subset of?" -> 37
      [] b = "what is the capital of france?" -> 30
      [] b = "in which year was the term coined? (45 words)" -> 260
      [] b = "quien acuno el termino inteligencia artificial?" -> 47
      [] b = "ai was coined by john mccarthy in 1956" -> 38
      [] b = "it is a subset" -> 14
      [] b = "machine learning is a subset of ai" -> 34
      [] b = "a body of 2990 characters" -> 2990
      [] b = "a body of 120 characters" -> 120
      [] b = "[text truncated]" -> 16
      [] b = "photosynthesis" -> 14
      [] b = "gravity" -> 7
      [] OTHER -> 1

\* len(s.split()): number of whitespace-separated words of each content.
Words(b) ==
    CASE b = "" -> 0
      [] b = "who coined the term artificial intelligence?" -> 6
      [] b = "what is machine learning a subset of?" -> 7
      [] b = "what is the capital of france?" -> 6
      [] b = "in which year was the term coined? (45 words)" -> 45
      [] b = "quien acuno el termino inteligencia artificial?" -> 6
      [] b = "a related concept from the same field" -> 7
      [] b = "an important but different aspect" -> 5
      [] b = "a frequently confused alternative" -> 4
      [] b = "a similar but distinct element" -> 5
      [] b = "a body of 120 characters" -> 18
      [] b \in {"ada lovelace", "grace hopper", "john mccarthy", "alan kay",
                "someone else", "alan turing", "isaac newton", "marie curie",
                "charles darwin"} -> 2
      [] OTHER -> 1

\* The search terms (denylist phrases, question keywords) each content holds
\* as a substring.
Sub(b) ==
    CASE b = "someone else" -> {"someone else"}
      [] b = "a different concept from the text" -> {"different concept"}
      [] b = "what is the capital of france?" -> {"capital"}
      [] b = "in which year was the term coined? (45 words)" -> {"year"}
      [] OTHER -> {}

\* Contents that begin with "who".
WhoContents == {"who coined the term artificial intelligence?"}

S(b) == [b |-> b, c |-> 0, p |-> 0, n |-> CharLen(b)]
Cap(b) == [b |-> b, c |-> 1, p |-> 0, n |-> CharLen(b)]
Pad(s) == [s EXCEPT !.p = 1]
EmptyStr == S("")
NullV == [json |-> "null"]

IsStr(v) == "b" \in DOMAIN v
\* str.lower()
Lower(s) == [s EXCEPT !.c = 0]
\* str.strip()
Strip(s) == [s EXCEPT !.p = 0]
\* "not s": the empty string is falsy, a whitespace-only one is not
IsEmpty(s) == s.n = 0 /\ s.p = 0
\* "term in s" for a lower-case search term
Contains(s, term) == s.c = 0 /\ s.n = CharLen(s.b) /\ term \in Sub(s.b)
\* s.startswith("who")
StartsWithWho(s) == s.c = 0 /\ s.p = 0 /\ s.n >= 3 /\ s.b \in WhoContents
\* len(s.split())
WordCount(s) == IF s.n = CharLen(s.b) THEN Words(s.b) ELSE 1
\* str(opt) of an option: a str is itself, None prints as "None"
StrOf(v) == IF IsStr(v) THEN v ELSE Cap("none")

\* F applied to the value of x (x is evaluated once, before the call).
Call(F(_), x) == CHOOSE r \in {F(v) : v \in {x}} : TRUE

Min(a, b) == IF a < b THEN a ELSE b
Take(s, k) == SubSeq(s, 1, Min(k, Len(s)))
Range(s) == {s[i] : i \in 1..Len(s)}

----------------------------------------------------------------------------
(* validate_mcq and generate_meaningful_filler *)

\* Number of options an MCQ carries.
NumOptions == 4

\* vague_terms, the denylist of validate_mcq.
VagueTerms == {"wrong", "incorrect", "not correct", "false", "invalid",
               "different concept", "alternative perspective",
               "common misconception", "broader interpretation",
               "related but different", "someone else", "not this",
               "other answer", "another option"}

People == <<Cap("alan turing"), Cap("isaac newton"), Cap("marie curie"),
            Cap("charles darwin")>>
Capitals == <<Cap("london"), Cap("berlin"), Cap("tokyo"), Cap("beijing")>>
Years == <<S("1945"), S("1969"), S("1776"), S("2001")>>
Generic == <<Cap("a related concept from the same field"),
             Cap("an important but different aspect"),
             Cap("a frequently confused alternative"),
             Cap("a similar but distinct element")>>

\* generate_meaningful_filler(question, answer, index)
GenerateMeaningfulFiller(question, answer, index) ==
    LET question_lower == Lower(question) IN
    IF StartsWithWho(question_lower)
    THEN People[(index % Len(People)) + 1]
    ELSE IF Contains(question_lower, "capital")
    THEN Capitals[(index % Len(Capitals)) + 1]
    ELSE IF \E term \in {"year", "when", "date"} : Contains(question_lower, term)
    THEN Years[(index % Len(Years)) + 1]
    ELSE Generic[(index % Len(Generic)) + 1]

\* Lines 317-327: the answer resolved against the raw options.  "raise" when
\* opt.lower() meets an option that is not a string.
RECURSIVE MatchCase(_, _, _)
MatchCase(answer, options, i) ==
    IF i > Len(options) THEN [tag |-> "ok", answer |-> options[1]]
    ELSE IF ~IsStr(options[i]) THEN [tag |-> "raise"]
    ELSE IF Lower(options[i]) = Lower(answer)
         THEN [tag |-> "ok", answer |-> options[i]]
         ELSE MatchCase(answer, options, i + 1)

ResolveAnswer(answer, options) ==
    IF answer \in Range(options) THEN [tag |-> "ok", answer |-> answer]
    ELSE MatchCase(answer, options, 1)

\* any(term in opt_lower for term in vague_terms)
IsVague(opt_lower) == \E term \in VagueTerms : Contains(opt_lower, term)

\* The cleaning loop without the denylist test: vague options are kept.
RECURSIVE CleanOptionsKeepVague(_, _, _, _)
CleanOptionsKeepVague(options, i, cleaned, seen) ==
    IF i > Len(options) THEN [cleaned |-> cleaned, seen |-> seen]
    ELSE LET opt_str == Strip(StrOf(options[i]))
             opt_lower == Lower(opt_str)
         IN IF IsEmpty(opt_str) \/ opt_lower \in seen
            THEN CleanOptionsKeepVague(options, i + 1, cleaned, seen)
            ELSE CleanOptionsKeepVague(options, i + 1, Append(cleaned, opt_str),
                                       seen \cup {opt_lower})

\* Lines 340-356: one pass of the cleaning loop over the raw options.
RECURSIVE CleanOptions(_, _, _, _)
CleanOptions(options, i, cleaned, seen) ==
    IF i > Len(options) THEN [cleaned |-> cleaned, seen |-> seen]
    ELSE LET opt_str == Strip(StrOf(options[i]))
             opt_lower == Lower(opt_str)
         IN IF IsEmpty(opt_str) \/ IsVague(opt_lower) \/ opt_lower \in seen
            THEN CleanOptions(options, i + 1, cleaned, seen)
            ELSE CleanOptions(options, i + 1, Append(cleaned, opt_str),
                              seen \cup {opt_lower})

\* Lines 358-364: the filler loop.  An iteration whose filler is already in
\* seen changes neither cleaned_options nor seen, so the next iteration asks
\* for the same filler again: the loop never ends ("hang").
RECURSIVE FillOptions(_, _, _, _)
FillOptions(question, answer, cleaned, seen) ==
    IF Len(cleaned) >= NumOptions THEN [tag |-> "ok", cleaned |-> cleaned]
    ELSE LET filler == GenerateMeaningfulFiller(question, answer, Len(cleaned))
             filler_lower == Lower(filler)
         IN IF filler_lower \in seen
            THEN [tag |-> "hang"]
            ELSE FillOptions(question, answer, Append(cleaned, filler),
                             seen \cup {filler_lower})

\* The difficulty label recomputed from the word count whatever was supplied.
DifficultyRecomputed(difficulty, question, answer) ==
    LET total_words == WordCount(question) + WordCount(answer) IN
    IF total_words < 20 THEN S("easy")
    ELSE IF total_words < 40 THEN S("medium")
    ELSE S("hard")

\* Lines 370-378: the difficulty label.
DifficultyOf(difficulty, question, answer) ==
    IF difficulty \in {S("easy"), S("medium"), S("hard")} THEN difficulty
    ELSE LET total_words == WordCount(question) + WordCount(answer) IN
         IF total_words < 20 THEN S("easy")
         ELSE IF total_words < 40 THEN S("medium")
         ELSE S("hard")

IsDict(m) == "question" \in DOMAIN m

NoneR == [tag |-> "none"]
RaiseR == [tag |-> "raise"]
HangR == [tag |-> "hang"]

\* validate_mcq(mcq): [tag |-> "ok", mcq |-> record], None, an exception, or
\* no return at all.  A key the dict lacks is given as the default .get
\* supplies ("" for question and answer, [] for options, "medium").
ValidateMcq(mcq) ==
    IF ~IsDict(mcq) THEN NoneR
    ELSE IF ~IsStr(mcq.question) \/ ~IsStr(mcq.answer) \/ ~IsStr(mcq.difficulty)
    THEN RaiseR
    ELSE
    LET question == Strip(mcq.question)
        answer == Strip(mcq.answer)
        options == mcq.options
        difficulty == Lower(Strip(mcq.difficulty))
    IN
    IF IsEmpty(question) \/ IsEmpty(answer) \/ Len(options) = 0 THEN NoneR
    ELSE IF Len(options) < NumOptions THEN NoneR
    ELSE
    LET resolved == ResolveAnswer(answer, options) IN
    IF resolved.tag = "raise" THEN RaiseR
    ELSE
    LET c == CleanOptions(options, 1, <<>>, {})
        filled == FillOptions(question, resolved.answer, c.cleaned, c.seen)
    IN
    IF filled.tag = "hang" THEN HangR
    ELSE
    LET cleaned_options == filled.cleaned
        final == IF resolved.answer \in Range(cleaned_options)
                 THEN resolved.answer ELSE cleaned_options[1]
    IN [tag |-> "ok",
        mcq |-> [question |-> question,
                 answer |-> final,
                 options |-> Take(cleaned_options, NumOptions),
                 difficulty |-> DifficultyOf(difficulty, question, final)]]

----------------------------------------------------------------------------
(* Raw MCQs handed to validate_mcq *)

\* Longest raw options list drawn.
MaxOpts == 5

RECURSIVE SeqsUpTo(_, _)
SeqsUpTo(U, k) ==
    IF k = 0 THEN {<<>>}
    ELSE LET shorter == SeqsUpTo(U, k - 1) IN
         shorter \cup {Append(s, u) : s \in {t \in shorter : Len(t) = k - 1}, u \in U}

WhoQuestion == Cap("who coined the term artificial intelligence?")
PlainQuestion == Cap("what is machine learning a subset of?")
CapitalQuestion == Cap("what is the capital of france?")
YearQuestion == Cap("in which year was the term coined? (45 words)")

RawOptionValues ==
    {S("ada lovelace"), Cap("ada lovelace"), Pad(S("ada lovelace")),
     S("grace hopper"), S("john mccarthy"), S("alan kay"),
     Cap("someone else"), Cap("isaac newton")}

\* Every options list up to MaxOpts entries, under a few questions/answers.
OptionCentricInputs ==
    [question : {Pad(WhoQuestion), PlainQuestion},
     answer : {Pad(Cap("ada lovelace")), S("alan kay")},
     options : SeqsUpTo(RawOptionValues, MaxOpts),
     difficulty : {S("easy")}]

\* Every question/answer/difficulty, under a few options lists.
FieldCentricInputs ==
    [question : {EmptyStr, Pad(EmptyStr), NullV, WhoQuestion, Pad(WhoQuestion),
                 PlainQuestion, CapitalQuestion, YearQuestion},
     answer : {EmptyStr, NullV, S("ada lovelace"), Cap("ada lovelace"),
               Pad(S("ada lovelace")), Cap("isaac newton"), S("tokyo"),
               Cap("a body of 120 characters")},
     options : {<<>>,
                <<S("ada lovelace"), S("grace hopper")>>,
                <<EmptyStr, S("ada lovelace"), S("grace hopper"),
                  S("john mccarthy")>>,
                <<Pad(EmptyStr), S("ada lovelace"), Cap("ada lovelace"),
                  EmptyStr, Cap("isaac newton")>>,
                <<S("ada lovelace"), S("grace hopper"), S("john mccarthy"),
                  S("alan kay")>>,
                <<Cap("ada lovelace"), Cap("tokyo"), Cap("someone else"),
                  S("1969")>>,
                <<NullV, S("ada lovelace"), S("grace hopper"),
                  S("john mccarthy")>>,
                <<Cap("ada lovelace"), S("1969"), Cap("berlin"),
                  Cap("a frequently confused alternative"), S("tokyo")>>},
     difficulty : {S("easy"), S("medium"), Pad(Cap("hard")), S("tricky"), NullV}]

\* A JSON array element that is no object at all.
ValidatorInputs == OptionCentricInputs \cup FieldCentricInputs \cup {NullV}

Pending == [tag |-> "pending"]

NoText == [lead |-> 0, frags |-> <<>>, marker |-> FALSE]
NoReply == [tag |-> "none"]
NoUpload == [isPdf |-> FALSE, size |-> 0]

IdlePipeline ==
    /\ entry = "none" /\ pc = "idle" /\ upload = NoUpload
    /\ text = NoText /\ genText = NoText /\ language = EmptyStr /\ maxq = 0
    /\ gen = NoReply /\ english = <<>> /\ translated = <<>> /\ tr = NoReply
    /\ calls = <<>> /\ mcqs = <<>> /\ result = <<>> /\ outcome = "none"
    /\ topic = NullV /\ strict_mode = FALSE /\ attempts = 0
    /\ response = NoReply /\ reason = "none" /\ script = NullV

InitValidate ==
    /\ vIn \in ValidatorInputs
    /\ vOut = Pending
    /\ cred = FALSE
    /\ IdlePipeline

\* One call validate_mcq(vIn).
Validate ==
    /\ vOut = Pending
    /\ UNCHANGED shortsVars
    /\ vOut' = ValidateMcq(vIn)
    /\ UNCHANGED <<vIn, entry, pc, cred, upload, text, genText, language, maxq,
                   gen, english, translated, tr, calls, mcqs, result, outcome>>

NextValidate == Validate

SpecValidate == InitValidate /\ [][NextValidate]_vars

----------------------------------------------------------------------------
(* Source text.  A text is [lead, frags, marker]: lead whitespace           *)
(* characters, then the fragments in order, each [ws, s, d]: ws whitespace  *)
(* characters, the content s, and d = 1 when a sentence delimiter (. ! ?)   *)
(* ends it; marker says the truncation marker has been appended.            *)

MinTextLen == 50
MaxTextLen == 6000
\* len("... [text truncated]")
MarkerLen == 20
\* Fragments must be longer than this to become fallback questions.
MinSentenceLen == 20
\* Longest sentence quoted whole in a fallback question.
MaxQuoteLen == 100

Frag(ws, s) == [ws |-> ws, s |-> s, d |-> 1]

RECURSIVE FragsLen(_)
FragsLen(frags) ==
    IF frags = <<>> THEN 0
    ELSE frags[1].ws + frags[1].s.n + frags[1].d + FragsLen(Tail(frags))

\* len(text)
TextLen(t) == t.lead + FragsLen(t.frags) + (IF t.marker THEN MarkerLen ELSE 0)

\* text.strip(): the whitespace in front of the first content goes.
StripText(t) ==
    [t EXCEPT !.lead = 0,
              !.frags = IF t.frags = <<>> THEN <<>>
                        ELSE <<[t.frags[1] EXCEPT !.ws = 0]>> \o Tail(t.frags)]

\* frags[:budget]: the first budget characters of the fragments.
RECURSIVE CutFrags(_, _)
CutFrags(frags, budget) ==
    IF frags = <<>> \/ budget = 0 THEN <<>>
    ELSE LET f == frags[1]
             size == f.ws + f.s.n + f.d
         IN IF size <= budget
            THEN <<f>> \o CutFrags(Tail(frags), budget - size)
            ELSE IF budget <= f.ws
            THEN <<[ws |-> budget, s |-> [f.s EXCEPT !.n = 0], d |-> 0]>>
            ELSE <<[ws |-> f.ws,
                    s |-> [f.s EXCEPT !.n = Min(f.s.n, budget - f.ws)],
                    d |-> 0]>>

\* A truncation that also cuts a text of exactly 6000 characters.
TruncateTextFromLimit(t) ==
    IF TextLen(t) >= MaxTextLen
    THEN [lead |-> 0, frags |-> CutFrags(t.frags, MaxTextLen), marker |-> TRUE]
    ELSE t

\* Lines 30-32: text[:6000] + "... [text truncated]" when len(text) > 6000.
TruncateText(t) ==
    IF TextLen(t) > MaxTextLen
    THEN [lead |-> 0, frags |-> CutFrags(t.frags, MaxTextLen), marker |-> TRUE]
    ELSE t

\* re.split(r'[.!?]', text), each piece stripped.  The marker "... [text
\* truncated]" adds the pieces "", "" and "[text truncated]" (16 characters).
MarkerPieces == <<EmptyStr, EmptyStr, S("[text truncated]")>>

SplitStripped(t) ==
    [i \in 1..Len(t.frags) |-> Strip(t.frags[i].s)]
        \o (IF t.marker THEN MarkerPieces ELSE <<>>)

\* A sentence test that takes the quoting limit for the length threshold.
IsSentenceQuotable(s) == s.n > MaxQuoteLen

IsSentence(s) == s.n > MinSentenceLen

\* Line 416: the stripped pieces longer than 20 characters.
Sentences(t) == SelectSeq(SplitStripped(t), IsSentence)

\* The question of a fallback MCQ: "What is the main idea of: '<sentence>'?",
\* the sentence cut to 100 characters plus "..." when longer.
FallbackQuestion(sentence) ==
    [b |-> "what is the main idea of: '<sentence>'?", c |-> 1, p |-> 0,
     n |-> 29 + Min(sentence.n, MaxQuoteLen) + (IF sentence.n > MaxQuoteLen THEN 3 ELSE 0),
     quoted |-> [sentence EXCEPT !.n = Min(sentence.n, MaxQuoteLen)],
     dots |-> sentence.n > MaxQuoteLen]

FallbackMcq(sentence) ==
    [question |-> FallbackQuestion(sentence),
     answer |-> sentence,
     options |-> <<sentence,
                   Cap("a different concept from the text"),
                   Cap("an alternative interpretation"),
                   Cap("related information")>>,
     difficulty |-> S("medium")]

\* A fallback generator that ignores max_questions.
GenerateFallbackMcqsUncapped(t, max_questions) ==
    LET sentences == Sentences(t)
    IN [i \in 1..Len(sentences) |-> FallbackMcq(sentences[i])]

\* generate_fallback_mcqs(text, max_questions)
GenerateFallbackMcqs(t, max_questions) ==
    LET sentences == Sentences(t)
        count == Min(max_questions, Len(sentences))
        built == [i \in 1..count |-> FallbackMcq(sentences[i])]
    IN Take(built, max_questions)

----------------------------------------------------------------------------
(* Provider responses and the Response Sanitizer.  A completion is          *)
(* [fence, closed, prose, body]: an opening code fence ("none", "json" for  *)
(* ```json, "bare" for ```), a closing fence, prose around the payload, and *)
(* the payload: [kind |-> "array", items], [kind |-> "object", obj],        *)
(* [kind |-> "null"] or [kind |-> "garbage"].                               *)

\* The regular expression \[\s*\{.*?\}\s*\] finds an array that opens with an
\* object and in which some object is directly followed by the closing ].
IsArrayOfObjects(body) ==
    /\ body.kind = "array"
    /\ Len(body.items) > 0
    /\ IsDict(body.items[1])
    /\ IsDict(body.items[Len(body.items)])

\* clean_json_response(raw_output)
CleanJsonResponse(resp) ==
    LET unfenced == [resp EXCEPT !.fence = IF resp.prose THEN resp.fence ELSE "none",
                                 !.closed = IF resp.prose THEN resp.closed ELSE FALSE]
    IN IF IsArrayOfObjects(unfenced.body)
       THEN [fence |-> "none", closed |-> FALSE, prose |-> FALSE, body |-> unfenced.body]
       ELSE unfenced

\* json.loads(raw_output): the decoded value, or JSONDecodeError.
JsonLoads(cleaned) ==
    IF cleaned.prose \/ cleaned.fence # "none" \/ cleaned.closed
       \/ cleaned.body.kind = "garbage"
    THEN [tag |-> "nojson"]
    ELSE [tag |-> "json", val |-> cleaned.body]

\* What a provider call leaves after .text, the sanitizer and json.loads.
Decode(reply) ==
    IF reply.tag = "raise" THEN [tag |-> "raise"]
    ELSE JsonLoads(CleanJsonResponse(reply.resp))

----------------------------------------------------------------------------
(* generate_english_mcqs *)

\* Lines 151-155: the validation loop over mcqs[:max_questions].
RECURSIVE ValidateAll(_, _, _)
ValidateAll(items, i, validated) ==
    IF i > Len(items) THEN [tag |-> "ok", list |-> validated]
    ELSE LET v == Call(ValidateMcq, items[i]) IN
         IF v.tag = "raise" THEN [tag |-> "raise"]
         ELSE IF v.tag = "hang" THEN [tag |-> "hang"]
         ELSE IF v.tag = "ok" THEN ValidateAll(items, i + 1, Append(validated, v.mcq))
         ELSE ValidateAll(items, i + 1, validated)

\* generate_english_mcqs(text, max_questions, api_key), given the decoded
\* provider reply: the validated list, or "hang" when validate_mcq never
\* returns.  Every exception ends in the empty list.
GenerateEnglishMcqs(decoded, max_questions) ==
    IF decoded.tag # "json" THEN [tag |-> "ok", list |-> <<>>]
    ELSE IF decoded.val.kind # "array" THEN [tag |-> "ok", list |-> <<>>]
    ELSE LET r == ValidateAll(Take(decoded.val.items, max_questions), 1, <<>>) IN
         IF r.tag = "raise" THEN [tag |-> "ok", list |-> <<>>] ELSE r

----------------------------------------------------------------------------
(* translate_mcqs_to_language: one slot *)

HasKeys(obj) == {"question", "answer", "options"} \subseteq DOMAIN obj

\* A slot translation that takes any parsed object with a changed question,
\* without the required-keys test of line 229.
TranslateSlotAnyObject(mcq, decoded) ==
    IF decoded.tag # "json" THEN mcq
    ELSE IF decoded.val.kind # "object" THEN mcq
    ELSE LET translated_mcq == decoded.val.obj IN
         IF ~IsStr(translated_mcq.question) THEN mcq
         ELSE IF Lower(mcq.question) # Lower(translated_mcq.question)
              THEN translated_mcq
              ELSE mcq

\* Lines 218-251: the element appended for one English MCQ, given the
\* decoded reply to its translation call.
TranslateSlot(mcq, decoded) ==
    IF decoded.tag # "json" THEN mcq
    ELSE IF decoded.val.kind # "object" THEN mcq
    ELSE LET translated_mcq == decoded.val.obj IN
         IF ~HasKeys(translated_mcq) THEN mcq
         ELSE IF ~IsStr(translated_mcq.question) THEN mcq
         ELSE IF Lower(mcq.question) # Lower(translated_mcq.question)
              THEN translated_mcq
              ELSE mcq

\* A case-sensitive language test.
IsEnglishExact(lang) == lang = Cap("english")

\* Line 166: target_lang.lower() == "english".
IsEnglish(lang) == Lower(lang) = S("english")

----------------------------------------------------------------------------
(* Inputs of the pipeline *)

\* question_count bounds of /process-pdf; the count of the module's own demo.
MinQuestions == 5
MaxQuestions == 20
DemoQuestions == 2
\* /process-pdf: fewest characters of extracted text, largest upload.
MinPdfText == 100
MaxUploadBytes == 10485760

\* Most fragments in a drawn text, most elements in a drawn JSON array,
\* longest English list handed to translate_mcqs_to_language directly.
MaxFrags == 6
MaxItems == 2
MaxDirect == 2

Rep(x, k) == [i \in 1..k |-> x]

ShortFragment == Cap("it is a subset")
Sentence == Cap("ai was coined by john mccarthy in 1956")
LongSentence == Cap("a body of 120 characters")
HugeSentence == Cap("a body of 2990 characters")

Texts ==
    {[lead |-> lead, frags |-> Rep(Frag(1, Sentence), k), marker |-> FALSE] :
        lead \in {0, 70}, k \in {1, 2, MaxFrags}}
    \cup {[lead |-> lead, frags |-> Rep(Frag(1, ShortFragment), MaxFrags), marker |-> FALSE] :
        lead \in {0, 70}}
    \cup {[lead |-> 0, frags |-> Rep(Frag(1, HugeSentence), 3), marker |-> FALSE],
          \* exactly 6000 characters once trimmed
          [lead |-> 0, frags |-> <<Frag(0, HugeSentence), Frag(1, HugeSentence),
                                   Frag(2, ShortFragment)>>, marker |-> FALSE],
          [lead |-> 0, frags |-> <<Frag(0, LongSentence), Frag(1, Sentence)>>,
           marker |-> FALSE]}

Languages == {Cap("english"), S("english"), Cap("spanish")}
Counts == {DemoQuestions, MinQuestions, MaxQuestions}

Names == <<Cap("john mccarthy"), Cap("ada lovelace"), Cap("grace hopper"),
           Cap("alan kay")>>

GoodWho ==
    [question |-> WhoQuestion, answer |-> Cap("john mccarthy"),
     options |-> Names, difficulty |-> S("easy")]
GoodPlain ==
    [question |-> Pad(PlainQuestion), answer |-> S("ada lovelace"),
     options |-> <<Cap("ada lovelace"), Cap("someone else"), Cap("grace hopper"),
                   Cap("alan kay")>>,
     difficulty |-> Pad(Cap("hard"))]
TwoOptions ==
    [question |-> PlainQuestion, answer |-> Cap("ada lovelace"),
     options |-> <<Cap("ada lovelace"), Cap("grace hopper")>>,
     difficulty |-> S("easy")]
FiveOptions ==
    [question |-> CapitalQuestion, answer |-> Cap("tokyo"),
     options |-> <<Cap("london"), Cap("berlin"), Cap("beijing"), S("1969"),
                   Cap("tokyo")>>,
     difficulty |-> S("medium")]
NullQuestion ==
    [question |-> NullV, answer |-> Cap("ada lovelace"),
     options |-> Names, difficulty |-> S("easy")]
Looping ==
    [question |-> WhoQuestion, answer |-> Cap("isaac newton"),
     options |-> <<Cap("isaac newton"), Cap("someone else"), EmptyStr,
                   S("isaac newton")>>,
     difficulty |-> S("easy")]

RawItems == {GoodWho, TwoOptions, FiveOptions, NullQuestion, Looping}

\* Objects a translation call may answer with.
SpanishGood ==
    [question |-> Cap("quien acuno el termino inteligencia artificial?"),
     answer |-> Cap("john mccarthy"), options |-> Names, difficulty |-> S("easy")]
SpanishBroken ==
    [question |-> Cap("quien acuno el termino inteligencia artificial?"),
     answer |-> Cap("isaac newton"),
     options |-> <<Cap("ada lovelace"), S("ada lovelace"), Cap("someone else")>>,
     difficulty |-> Cap("tricky")]
SpanishNoDifficulty ==
    [question |-> Cap("quien acuno el termino inteligencia artificial?"),
     answer |-> Cap("john mccarthy"), options |-> Names]
OnlyQuestion ==
    [question |-> Cap("quien acuno el termino inteligencia artificial?")]
NullQuestionObject ==
    [question |-> NullV, answer |-> Cap("john mccarthy"), options |-> Names]
\* The English MCQ sent back with nothing but the casing of its question changed.
Untranslated(mcq) == [mcq EXCEPT !.question = Lower(mcq.question)]

Wrappings ==
    {[fence |-> "none", closed |-> FALSE, prose |-> FALSE],
     [fence |-> "json", closed |-> TRUE, prose |-> FALSE],
     [fence |-> "bare", closed |-> FALSE, prose |-> FALSE],
     [fence |-> "json", closed |-> TRUE, prose |-> TRUE]}

Wrap(w, body) == [fence |-> w.fence, closed |-> w.closed, prose |-> w.prose, body |-> body]

Raises == [tag |-> "raise"]
Says(resp) == [tag |-> "text", resp |-> resp]

GenerationBodies ==
    {[kind |-> "garbage"], [kind |-> "null"], [kind |-> "object", obj |-> GoodWho]}
    \cup {[kind |-> "array", items |-> items] : items \in SeqsUpTo(RawItems, MaxItems)}

GenerationReplies ==
    {Raises} \cup {Says(Wrap(w, body)) : w \in Wrappings, body \in GenerationBodies}

TranslationBodies(mcq) ==
    {[kind |-> "garbage"], [kind |-> "null"],
     [kind |-> "array", items |-> <<SpanishGood>>]}
    \cup {[kind |-> "object", obj |-> obj] :
            obj \in {SpanishGood, SpanishBroken, SpanishNoDifficulty, OnlyQuestion,
                     NullQuestionObject, Untranslated(mcq)}}

TranslationReplies(mcq) ==
    {Raises} \cup {Says(Wrap(w, body)) : w \in Wrappings, body \in TranslationBodies(mcq)}

\* English lists handed to translate_mcqs_to_language by a direct caller.
\* Both are fixed points of validate_mcq.
ValidGoodWho == GoodWho
ValidGoodPlain ==
    [question |-> PlainQuestion, answer |-> Cap("ada lovelace"),
     options |-> <<Cap("ada lovelace"), Cap("grace hopper"), Cap("alan kay"),
                   Cap("a similar but distinct element")>>,
     difficulty |-> S("hard")]
DirectLists == SeqsUpTo({ValidGoodWho, ValidGoodPlain}, MaxDirect)

----------------------------------------------------------------------------
(* The pipeline as a state machine.  A provider call is the only point an  *)
(* invocation waits at: pc = "generating" while the generation call is out, *)
(* pc = "translating" while the translation call for slot                   *)
(* Len(translated) + 1 is out.                                              *)

\* A card that takes the first option for the answer.
FlashcardFirstOption(m) == [question |-> m.question, answer |-> m.options[1]]

Flashcard(m) == [question |-> m.question, answer |-> m.answer]

\* An entry point that answers with a response whatever make_mcqs returned.
ReturnUnchecked(e, res) ==
    /\ pc' = "done"
    /\ mcqs' = res
    /\ IF e = "process_pdf"
       THEN /\ outcome' = "response"
            /\ result' = [mcqs |-> res,
                          flashcards |-> [i \in 1..Len(res) |-> Flashcard(res[i])]]
       ELSE IF e = "make_flashcards"
       THEN /\ outcome' = "returned"
            /\ result' = Take([i \in 1..Len(res) |-> Flashcard(res[i])], maxq')
       ELSE outcome' = "returned" /\ result' = res

\* The entry point e gets res back from make_mcqs (or from the translator it
\* called directly) and finishes.  process_pdf, lines 274-307;
\* make_flashcards, lines 445-454.
Return(e, res) ==
    /\ pc' = "done"
    /\ mcqs' = res
    /\ IF e = "process_pdf"
       THEN IF res = <<>>
            THEN outcome' = "http500" /\ result' = <<>>
            ELSE /\ outcome' = "response"
                 /\ result' = [mcqs |-> res,
                               flashcards |-> [i \in 1..Len(res) |-> Flashcard(res[i])]]
       ELSE IF e = "make_flashcards"
       THEN /\ outcome' = "returned"
            /\ result' = Take([i \in 1..Len(res) |-> Flashcard(res[i])], maxq')
       ELSE outcome' = "returned" /\ result' = res

\* make_mcqs that asks the provider before it looks at the credential.
EnterMakeMcqsCallFirst(e, t, lang, n) ==
    LET stripped == StripText(t)
        bounded == TruncateText(stripped)
    IN
    /\ entry' = e /\ text' = t /\ language' = lang /\ maxq' = n
    /\ UNCHANGED <<vIn, vOut, cred, gen, english, translated, tr>>
    /\ IF TextLen(stripped) < MinTextLen
       THEN genText' = NoText /\ calls' = calls /\ Return(e, <<>>)
       ELSE /\ genText' = bounded
            /\ calls' = Append(calls, "generate")
            /\ pc' = "generating"
            /\ UNCHANGED <<mcqs, result, outcome>>

\* make_mcqs, lines 24-46, and generate_english_mcqs up to the generation
\* call of line 128.  setupRaises: genai.configure / GenerativeModel raised
\* (lines 91-92), which generate_english_mcqs answers with [].
EnterMakeMcqs(e, t, lang, n) ==
    LET stripped == StripText(t)
        bounded == TruncateText(stripped)
    IN
    /\ entry' = e /\ text' = t /\ language' = lang /\ maxq' = n
    /\ UNCHANGED <<vIn, vOut, cred, english, translated, tr>>
    /\ IF TextLen(stripped) < MinTextLen
       THEN genText' = NoText /\ calls' = calls /\ gen' = gen /\ Return(e, <<>>)
       ELSE /\ genText' = bounded
            /\ IF ~cred
               THEN /\ calls' = calls /\ gen' = gen
                    /\ Return(e, GenerateFallbackMcqs(bounded, n))
               ELSE \E setupRaises \in BOOLEAN :
                    IF setupRaises
                    THEN /\ calls' = calls /\ gen' = [tag |-> "raise"]
                         /\ Return(e, GenerateFallbackMcqs(bounded, n))
                    ELSE /\ calls' = Append(calls, "generate") /\ gen' = gen
                         /\ pc' = "generating"
                         /\ UNCHANGED <<mcqs, result, outcome>>

\* A caller invokes make_mcqs(text, language, max_questions).
InvokeMakeMcqs ==
    /\ pc = "idle"
    /\ UNCHANGED shortsVars
    /\ upload' = upload
    /\ \E t \in Texts, lang \in Languages, n \in Counts :
           EnterMakeMcqs("make_mcqs", t, lang, n)

\* A caller invokes make_flashcards(text, lang, max_cards): lines 438-454.
InvokeMakeFlashcards ==
    /\ pc = "idle"
    /\ UNCHANGED shortsVars
    /\ upload' = upload
    /\ \E t \in Texts, lang \in Languages, n \in Counts :
           EnterMakeMcqs("make_flashcards", t, lang, n)

\* translate_mcqs_to_language, lines 166-181: up to the first translation
\* call.  setupRaises: genai.configure / GenerativeModel raised.
EnterTranslate(e, list, lang, setupRaises) ==
    IF IsEnglish(lang) \/ list = <<>> \/ setupRaises
    THEN calls' = calls /\ translated' = translated /\ Return(e, Take(list, IF e = "translate" THEN Len(list) ELSE maxq))
    ELSE /\ calls' = Append(calls, "translate")
         /\ translated' = <<>>
         /\ pc' = "translating"
         /\ UNCHANGED <<mcqs, result, outcome>>

\* The provider answers (or fails) the generation call: the rest of
\* generate_english_mcqs and make_mcqs lines 48-65.
GenReply ==
    /\ pc = "generating"
    /\ UNCHANGED shortsVars
    /\ \E reply \in GenerationReplies, setupRaises \in BOOLEAN :
        \E decoded \in {Decode(reply)} :
        \E g \in {GenerateEnglishMcqs(decoded, maxq)} :
        /\ gen' = decoded
        /\ UNCHANGED <<vIn, vOut, entry, cred, upload, text, genText, language,
                       maxq, tr>>
        /\ IF g.tag = "hang"
           THEN /\ pc' = "hung" /\ outcome' = "hung"
                /\ UNCHANGED <<english, translated, calls, mcqs, result>>
           ELSE /\ english' = g.list
                /\ IF g.list = <<>>
                   THEN /\ UNCHANGED <<translated, calls>>
                        /\ Return(entry, GenerateFallbackMcqs(genText, maxq))
                   ELSE IF IsEnglish(language)
                   THEN /\ UNCHANGED <<translated, calls>>
                        /\ Return(entry, Take(g.list, maxq))
                   ELSE EnterTranslate(entry, g.list, language, setupRaises)

\* A caller invokes translate_mcqs_to_language(english_mcqs, target_lang, key).
InvokeTranslate ==
    /\ pc = "idle"
    /\ UNCHANGED shortsVars
    /\ cred
    /\ \E list \in DirectLists, lang \in Languages, setupRaises \in BOOLEAN :
        /\ entry' = "translate" /\ language' = lang /\ english' = list
        /\ UNCHANGED <<vIn, vOut, cred, upload, text, genText, maxq, gen, tr>>
        /\ EnterTranslate("translate", list, lang, setupRaises)

\* The provider answers (or fails) the translation call of the current slot:
\* lines 218-251, then the next call or lines 253-270 and make_mcqs 67-80.
TransReply ==
    /\ pc = "translating"
    /\ UNCHANGED shortsVars
    /\ LET idx == Len(translated) + 1
           mcq == english[idx]
       IN \E reply \in TranslationReplies(mcq) :
           \E decoded \in {Decode(reply)} :
           \E grown \in {Append(translated, TranslateSlot(mcq, decoded))} :
           /\ tr' = decoded
           /\ translated' = grown
           /\ UNCHANGED <<vIn, vOut, entry, cred, upload, text, genText, language,
                          maxq, gen, english>>
           /\ IF Len(grown) < Len(english)
              THEN /\ calls' = Append(calls, "translate")
                   /\ UNCHANGED <<pc, mcqs, result, outcome>>
              ELSE /\ calls' = calls
                   /\ Return(entry, IF entry = "translate" THEN grown
                                    ELSE IF Len(grown) > 0 THEN Take(grown, maxq)
                                    ELSE Take(english, maxq))

\* POST /process-pdf, lines 223-272: validation, extraction, then make_mcqs.
InvokeProcessPdf ==
    /\ pc = "idle"
    /\ UNCHANGED shortsVars
    /\ \E question_count \in {MinQuestions - 1, MinQuestions, MaxQuestions, MaxQuestions + 1},
          isPdf \in BOOLEAN,
          size \in {0, 4096, MaxUploadBytes + 1},
          t \in Texts, lang \in Languages :
        /\ upload' = [isPdf |-> isPdf, size |-> size]
        /\ IF \/ question_count < MinQuestions \/ question_count > MaxQuestions
              \/ ~isPdf
              \/ size = 0
              \/ size > MaxUploadBytes
           THEN /\ entry' = "process_pdf" /\ maxq' = question_count /\ language' = lang
                /\ pc' = "done" /\ outcome' = "http400"
                /\ UNCHANGED <<vIn, vOut, cred, text, genText, gen, english,
                               translated, tr, calls, mcqs, result>>
           ELSE IF TextLen(t) < MinPdfText
           THEN /\ entry' = "process_pdf" /\ maxq' = question_count /\ language' = lang
                /\ text' = t
                /\ pc' = "done" /\ outcome' = "http400"
                /\ UNCHANGED <<vIn, vOut, cred, genText, gen, english, translated,
                               tr, calls, mcqs, result>>
           ELSE EnterMakeMcqs("process_pdf", t, lang, question_count)

Init ==
    /\ vIn = NullV /\ vOut = Pending
    /\ cred \in BOOLEAN
    /\ IdlePipeline

Next ==
    \/ InvokeMakeMcqs
    \/ InvokeMakeFlashcards
    \/ InvokeTranslate
    \/ InvokeProcessPdf
    \/ GenReply
    \/ TransReply

Spec == Init /\ [][Next]_vars

----------------------------------------------------------------------------
(* generate_short_form_script and its helpers: lines 475-600 *)

(***************************************************************************)
(* A narration text (response.text, script) is a record                    *)
(*     [fence, quote, p, words, uses]                                      *)
(* fence: the text is wrapped in a ``` code fence; quote: it is wrapped in *)
(* double quotes; p = 1: it carries surrounding or repeated whitespace;    *)
(* words: len(text.split()) of the bare narration; uses: the phrases the   *)
(* narration contains, each [b |-> lower-cased phrase, c |-> casing].      *)
(***************************************************************************)

\* within_length = 120 <= len(words) <= 180
MinWords == 120
MaxWords == 180
\* while attempts < 2
MaxAttempts == 2

\* banned_phrases, lines 486-497.
BannedPhrases == {"calm reminder", "picture", "picture this", "why it matters",
                  "take a breath", "walking beside you", "imagine", "remember",
                  "calm", "reminder"}

\* phrase is a substring of the lower-case content b.
PhraseWithin(phrase, b) ==
    \/ phrase = b
    \/ b = "calm reminder" /\ phrase \in {"calm", "reminder"}
    \/ b = "picture this" /\ phrase = "picture"

EmptyScript == [fence |-> FALSE, quote |-> FALSE, p |-> 0, words |-> 0, uses |-> {}]

\* _sanitize_plain_text_script: None and "" give ""; otherwise strip, drop
\* the code fence, drop the surrounding quotes, collapse whitespace.
SanitizePlainTextScript(raw_text) ==
    IF raw_text = NullV \/ raw_text.words = 0
    THEN EmptyScript
    ELSE [raw_text EXCEPT !.fence = FALSE, !.quote = FALSE, !.p = 0]

\* script.lower()
LowerScript(s) == [s EXCEPT !.uses = {[u EXCEPT !.c = 0] : u \in s.uses}]

\* "phrase in lowered" for a lower-case phrase.
ScriptContains(s, phrase) ==
    \E u \in s.uses : u.c = 0 /\ PhraseWithin(phrase, u.b)

\* _build_fallback_short_script: the error string, which quotes the topic.
BuildFallbackShortScript(t) ==
    [error |-> "unable to generate a quillium shorts narration",
     topic |-> IF IsEmpty(t) THEN S("this topic") ELSE t]

\* _construct_shorts_prompt(topic, strict): the strict prompt carries the
\* extra "Repeat the exact phrase" paragraph.
ConstructShortsPrompt(t, strict) ==
    [topic |-> t, strict |-> strict]

\* One model.generate_content call of the loop, lines 511-517.
ShortsCall(t, strict) ==
    [prompt |-> ConstructShortsPrompt(t, strict),
     temperature |-> IF strict THEN "0.25" ELSE "0.35"]

\* Variant of NormalizedTopic that does not strip the topic.
NormalizedTopicUnstripped(t) == IF t = NullV \/ IsEmpty(t) THEN EmptyStr ELSE t

\* normalized_topic = topic.strip() if topic else ""
NormalizedTopic(t) == IF t = NullV \/ IsEmpty(t) THEN EmptyStr ELSE Strip(t)

\* Variant of ScriptVerdict that does not look for banned phrases.
ScriptVerdictBannedAllowed(s, normalized_topic) ==
    IF s.words = 0 THEN "empty_response"
    ELSE IF ~ScriptContains(LowerScript(s), Lower(normalized_topic).b)
    THEN "missing_topic"
    ELSE IF ~(MinWords <= s.words /\ s.words <= MaxWords) THEN "word_count"
    ELSE "accept"

\* Lines 519-537: the verdict on one response text.
\* "accept" or the rejection reason.
ScriptVerdict(s, normalized_topic) ==
    IF s.words = 0 THEN "empty_response"
    ELSE LET lowered == LowerScript(s)
             contains_topic == ScriptContains(lowered, Lower(normalized_topic).b)
             within_length == MinWords <= s.words /\ s.words <= MaxWords
             has_banned == \E phrase \in BannedPhrases : ScriptContains(lowered, phrase)
         IN IF contains_topic /\ within_length /\ ~has_banned THEN "accept"
            ELSE IF ~contains_topic THEN "missing_topic"
            ELSE IF ~within_length THEN "word_count"
            ELSE "banned_language"

\* Topic arguments: None, "", whitespace only, and two real topics.
Topics == {NullV, EmptyStr, Pad(EmptyStr), Cap("photosynthesis"), Pad(S("gravity"))}

\* The phrase sets a narration about topic t may contain.
MentionSets(t) ==
    {m \cup b : m \in {{}, {[b |-> t.b, c |-> 0]}, {[b |-> t.b, c |-> 1]}},
                b \in {{}, {[b |-> "imagine", c |-> 1]}, {[b |-> "calm reminder", c |-> 0]}}}

\* Narration texts the provider may answer with.
Narrations(t) ==
    {[fence |-> w[1], quote |-> w[2], p |-> w[3], words |-> n, uses |-> u] :
        w \in {<<FALSE, FALSE, 0>>, <<TRUE, FALSE, 1>>, <<FALSE, TRUE, 0>>,
               <<FALSE, FALSE, 1>>},
        n \in {MinWords - 1, MinWords, MaxWords, MaxWords + 1},
        u \in MentionSets(t)}
    \cup {[fence |-> w[1], quote |-> w[2], p |-> w[3], words |-> 0, uses |-> {}] :
        w \in {<<FALSE, FALSE, 0>>, <<TRUE, FALSE, 0>>, <<FALSE, TRUE, 0>>,
               <<FALSE, FALSE, 1>>}}

\* Outcomes of one generate_content call: it raises, or response.text is
\* None, or response.text is a narration.
ScriptReplies(t) ==
    {[tag |-> "raise"], [tag |-> "ok", text |-> NullV]}
    \cup {[tag |-> "ok", text |-> x] : x \in Narrations(t)}

\* return <value>
ReturnScript(value) ==
    /\ script' = value
    /\ pc' = "done"
    /\ outcome' = "returned"

\* A caller invokes generate_short_form_script(topic): lines 475-517, up to
\* the first provider call.  setupRaises: genai.configure / GenerativeModel
\* raised (caught at line 553).
InvokeShortScript ==
    /\ pc = "idle"
    /\ \E t \in Topics, setupRaises \in BOOLEAN :
        LET normalized_topic == NormalizedTopic(t)
        IN /\ entry' = "generate_short_form_script"
           /\ topic' = t
           /\ UNCHANGED <<vIn, vOut, cred, upload, text, genText, language, maxq,
                          gen, english, translated, tr, mcqs, result,
                          response, reason>>
           /\ IF IsEmpty(normalized_topic)
              THEN /\ pc' = "done" /\ outcome' = "raised"
                   /\ UNCHANGED <<calls, strict_mode, attempts, script>>
              ELSE IF ~cred \/ setupRaises
              THEN /\ ReturnScript(BuildFallbackShortScript(normalized_topic))
                   /\ UNCHANGED <<calls, strict_mode, attempts>>
              ELSE /\ strict_mode' = FALSE
                   /\ attempts' = 0
                   /\ calls' = Append(calls, ShortsCall(normalized_topic, FALSE))
                   /\ pc' = "scripting"
                   /\ UNCHANGED <<outcome, script>>

\* The provider answers (or fails) the pending call: lines 519-555.
ScriptReply ==
    /\ pc = "scripting"
    /\ LET normalized_topic == NormalizedTopic(topic)
           error_message == BuildFallbackShortScript(normalized_topic)
       IN \E reply \in ScriptReplies(normalized_topic) :
           /\ response' = reply
           /\ UNCHANGED <<vIn, vOut, entry, cred, upload, text, genText, language,
                          maxq, gen, english, translated, tr, mcqs, result, topic>>
           /\ IF reply.tag = "raise"
              THEN /\ ReturnScript(error_message)
                   /\ UNCHANGED <<calls, strict_mode, attempts, reason>>
              ELSE LET s == SanitizePlainTextScript(reply.text)
                       verdict == ScriptVerdict(s, normalized_topic)
                   IN IF verdict = "accept"
                      THEN /\ ReturnScript(s)
                           /\ UNCHANGED <<calls, strict_mode, attempts, reason>>
                      ELSE /\ reason' = verdict
                           /\ IF strict_mode
                              THEN /\ ReturnScript(error_message)
                                   /\ UNCHANGED <<calls, strict_mode, attempts>>
                              ELSE /\ strict_mode' = TRUE
                                   /\ attempts' = attempts + 1
                                   /\ IF attempts + 1 < MaxAttempts
                                      THEN /\ calls' = Append(calls,
                                                    ShortsCall(normalized_topic, TRUE))
                                           /\ UNCHANGED <<pc, outcome, script>>
                                      ELSE /\ calls' = calls
                                           /\ ReturnScript(error_message)

InitShorts ==
    /\ vIn = NullV /\ vOut = Pending
    /\ cred \in BOOLEAN
    /\ IdlePipeline

NextShorts ==
    \/ InvokeShortScript
    \/ ScriptReply

SpecShorts == InitShorts /\ [][NextShorts]_vars

----------------------------------------------------------------------------
(* Claims about validate_mcq *)

Returned == vOut.tag = "ok"
OutOptions == vOut.mcq.options

\* C1 (as stated): whenever validate_mcq returns a record, the record has
\* exactly four options and its answer is one of those four.
C1_AnswerAmongFourOptions ==
    Returned =>
        /\ Len(OutOptions) = NumOptions
        /\ vOut.mcq.answer \in Range(OutOptions)

\* C6: in every record validate_mcq returns, no option's lower-case form
\* holds a denylisted phrase and no two options are equal when lower-cased.
C6_NoVagueNoDuplicate ==
    Returned =>
        /\ \A i \in 1..Len(OutOptions) :
               \A term \in VagueTerms : ~Contains(Lower(OutOptions[i]), term)
        /\ \A i, j \in 1..Len(OutOptions) :
               i # j => Lower(OutOptions[i]) # Lower(OutOptions[j])

\* C6 witness: a record was returned for a raw list holding a denylisted
\* option and a case-insensitive duplicate, and a filler was synthesized.
C6_Witness ==
    /\ Returned
    /\ \E i \in 1..Len(vIn.options) : IsStr(vIn.options[i]) /\ IsVague(Lower(vIn.options[i]))
    /\ \E i, j \in 1..Len(vIn.options) :
           /\ i < j /\ vIn.options[i] # vIn.options[j]
           /\ Lower(Strip(StrOf(vIn.options[i]))) = Lower(Strip(StrOf(vIn.options[j])))
    /\ \E k \in 1..Len(OutOptions) :
           OutOptions[k] \notin {Strip(StrOf(vIn.options[i])) : i \in 1..Len(vIn.options)}

CanonicalDifficulty == {S("easy"), S("medium"), S("hard")}

\* "Already valid" as C7 words it: a non-empty trimmed question, four trimmed
\* options that are pairwise different case-insensitively and hold no
\* denylisted phrase, an answer equal to one of them, a canonical difficulty.
ValidAsWorded(m) ==
    /\ IsDict(m)
    /\ IsStr(m.question) /\ IsStr(m.answer) /\ IsStr(m.difficulty)
    /\ ~IsEmpty(m.question) /\ m.question.p = 0
    /\ Len(m.options) = NumOptions
    /\ \A i \in 1..Len(m.options) :
           /\ IsStr(m.options[i]) /\ m.options[i].p = 0
           /\ \A term \in VagueTerms : ~Contains(Lower(m.options[i]), term)
    /\ \A i, j \in 1..Len(m.options) :
           i # j => Lower(m.options[i]) # Lower(m.options[j])
    /\ m.answer \in Range(m.options)
    /\ m.difficulty \in CanonicalDifficulty

\* C7 (as stated): validating an already-valid MCQ returns it unchanged.
C7_IdempotentAsWorded ==
    (vOut # Pending /\ ValidAsWorded(vIn)) =>
        (Returned /\ vOut.mcq = vIn)

\* C7 (amended): validating an already-valid MCQ whose four options and
\* answer are non-empty returns a record identical to it in all four
\* fields, options in the same order.
C7_Idempotent ==
    (/\ vOut # Pending
     /\ ValidAsWorded(vIn)
     /\ \A i \in 1..Len(vIn.options) : ~IsEmpty(vIn.options[i])) =>
        (Returned /\ vOut.mcq = vIn)

\* C7 witness: an already-valid MCQ with non-empty options was validated.
C7_Witness ==
    /\ Returned
    /\ ValidAsWorded(vIn)
    /\ \A i \in 1..Len(vIn.options) : ~IsEmpty(vIn.options[i])
    /\ vIn.difficulty = S("medium")

\* C8 (as stated): every input whose raw options list has fewer than four
\* entries is answered with None.
C8_FewOptionsRejected ==
    (vOut # Pending /\ IsDict(vIn) /\ Len(vIn.options) < NumOptions) =>
        vOut = NoneR

----------------------------------------------------------------------------
(* Claims about make_mcqs, translate_mcqs_to_language and process_pdf *)

MakeMcqsDone == pc = "done" /\ entry = "make_mcqs"

\* text.strip() of the text argument.
Trimmed == StripText(text)

\* The pieces of t between sentence delimiters that are longer than 20
\* characters once stripped, in order.
LongPieces(t) == SelectSeq(SplitStripped(t), LAMBDA s : s.n > MinSentenceLen)

\* The MCQ invariants of the data model.
WellFormed(m) ==
    /\ Len(m.options) = NumOptions
    /\ \A i, j \in 1..Len(m.options) :
           i # j => Lower(m.options[i]) # Lower(m.options[j])
    /\ \A i \in 1..Len(m.options) : ~IsVague(Lower(m.options[i]))
    /\ m.answer \in Range(m.options)
    /\ "difficulty" \in DOMAIN m
    /\ m.difficulty \in CanonicalDifficulty

\* C2 (as stated): every MCQ of the list make_mcqs returns has exactly four
\* options, pairwise different case-insensitively, none holding a denylisted
\* phrase, an answer equal to one of them and a canonical difficulty.
C2_EveryReturnedMcqWellFormed ==
    MakeMcqsDone => \A i \in 1..Len(mcqs) : WellFormed(mcqs[i])

\* C3 (as stated): make_mcqs returns a list, and the empty list only when
\* the trimmed text is shorter than 50 characters.
C3_EmptyOnlyWhenShort ==
    MakeMcqsDone =>
        /\ outcome = "returned"
        /\ mcqs = <<>> => TextLen(Trimmed) < MinTextLen

\* C3 (amended): make_mcqs never raises, whatever the provider does, and it
\* returns the empty list only when the trimmed text is shorter than 50
\* characters or the (possibly truncated) text has no piece longer than 20
\* characters for the fallback generator to ask about.
C3_EmptyOnlyWhenNothingToAsk ==
    entry = "make_mcqs" =>
        /\ outcome \in {"none", "returned", "hung"}
        /\ pc = "done" =>
            /\ outcome = "returned" /\ result = mcqs
            /\ mcqs = <<>> =>
                \/ TextLen(Trimmed) < MinTextLen
                \/ LongPieces(TruncateText(Trimmed)) = <<>>

\* C3 witness: the provider call raised for a text of 50 characters or more
\* and make_mcqs returned the empty list.
C3_Witness ==
    /\ MakeMcqsDone /\ cred /\ gen.tag = "raise"
    /\ TextLen(Trimmed) >= MinTextLen
    /\ outcome = "returned" /\ mcqs = <<>>

\* The provider object of a decoded translation reply is taken for the slot
\* of mcq: it parsed to an object, carries question, answer and options, and
\* its question differs case-insensitively from the English one.
Accepted(mcq, decoded) ==
    /\ decoded.tag = "json"
    /\ decoded.val.kind = "object"
    /\ {"question", "answer", "options"} \subseteq DOMAIN decoded.val.obj
    /\ IsStr(decoded.val.obj.question)
    /\ Lower(decoded.val.obj.question) # Lower(mcq.question)

C4_Step ==
    /\ pc = "translating" =>
        LET i == Len(translated) + 1 IN
        /\ english' = english
        /\ Len(translated') = i
        /\ \A j \in 1..(i - 1) : translated'[j] = translated[j]
        /\ translated'[i] = IF Accepted(english[i], tr') THEN tr'.val.obj
                            ELSE english[i]
    /\ (entry' = "translate" /\ pc' = "done") =>
        /\ Len(mcqs') = Len(english')
        /\ mcqs' = IF pc = "translating" THEN translated' ELSE english'

\* C4: each translation reply fills exactly the next slot, with the provider
\* object when it parsed, carries the three keys and has a different
\* question, with the English MCQ of that slot otherwise (call raised, no
\* JSON, no object, missing key, unchanged question); the slots filled
\* before stay as they are, and translate_mcqs_to_language returns a list as
\* long as its input.
C4_SlotIsolation == [][C4_Step]_vars

\* C4 witness: of two MCQs the first kept its English form after a failed
\* translation call and the second was replaced by the provider object.
C4_Witness ==
    /\ entry = "translate" /\ pc = "done"
    /\ Len(english) = 2 /\ Len(mcqs) = 2
    /\ mcqs[1] = english[1]
    /\ mcqs[2] # english[2] /\ mcqs[2] = tr.val.obj

\* C5: for a target language that lower-cases to "english",
\* translate_mcqs_to_language returns its input list unchanged and issues no
\* provider call.
C5_EnglishIdentity ==
    (entry = "translate" /\ pc = "done" /\ Lower(language) = S("english")) =>
        /\ mcqs = english /\ result = english
        /\ calls = <<>>

\* C5 witness: a two-element list came back from a call with target
\* language "english" written in lower case.
C5_Witness ==
    /\ entry = "translate" /\ pc = "done"
    /\ language = S("english")
    /\ Len(english) = 2 /\ mcqs = english

\* C9: with a credential and a trimmed text of 50 characters or more, when
\* the provider call raises make_mcqs returns the fallback MCQs of the
\* (possibly truncated) text: one per piece longer than 20 characters, in
\* order, min(max_questions, number of such pieces) of them.
C9_FallbackWhenProviderRaises ==
    (MakeMcqsDone /\ cred /\ gen.tag = "raise" /\ TextLen(Trimmed) >= MinTextLen) =>
        LET long == LongPieces(TruncateText(Trimmed)) IN
        /\ Len(mcqs) = Min(maxq, Len(long))
        /\ \A i \in 1..Len(mcqs) : mcqs[i] = FallbackMcq(long[i])

\* C9 witness: the provider raised for a text that was truncated, and the
\* fallback list is shorter than max_questions.
C9_Witness ==
    /\ MakeMcqsDone /\ cred /\ gen.tag = "raise"
    /\ genText.marker
    /\ Len(mcqs) > 0 /\ Len(mcqs) < maxq

\* /process-pdf: every input check of lines 230-266 passed.
ValidationPassed ==
    /\ maxq \in MinQuestions..MaxQuestions
    /\ upload.isPdf
    /\ upload.size > 0 /\ upload.size <= MaxUploadBytes
    /\ TextLen(text) >= MinPdfText

----------------------------------------------------------------------------
(* Claims about make_flashcards *)

\* C11: make_flashcards never raises and returns one {question, answer}
\* record per MCQ its make_mcqs call produced, in the same order, each with
\* the question and the answer of the MCQ at its index, at most max_cards
\* of them.
C11_FlashcardsMirrorMcqs ==
    entry = "make_flashcards" =>
        /\ outcome \in {"none", "returned", "hung"}
        /\ pc = "done" =>
            /\ outcome = "returned"
            /\ Len(result) = Len(mcqs)
            /\ Len(result) <= maxq
            /\ \A i \in 1..Len(result) :
                   /\ DOMAIN result[i] = {"question", "answer"}
                   /\ result[i].question = mcqs[i].question
                   /\ result[i].answer = mcqs[i].answer

\* C11 witness: make_flashcards returned two cards built from translated
\* MCQs, the second with an answer that is not its MCQ's first option.
C11_Witness ==
    /\ entry = "make_flashcards" /\ pc = "done"
    /\ Len(result) = 2 /\ Len(translated) = 2
    /\ result[2].answer # mcqs[2].options[1]

----------------------------------------------------------------------------
(* Claims about the text make_mcqs hands to the generators *)

\* make_mcqs got past the length test of line 25: genText is the text the
\* English generator and the fallback generator are called with.
PastLengthTest == entry \in {"make_mcqs", "make_flashcards", "process_pdf"} /\ genText # NoText

\* C12: a trimmed text longer than 6000 characters reaches the generators
\* as its first 6000 characters plus the truncation marker, so a generator
\* gets at most 6000 + 20 characters; a trimmed text of at most 6000
\* characters reaches them unchanged.
C12_TextBounded ==
    PastLengthTest =>
        /\ TextLen(genText) <= MaxTextLen + MarkerLen
        /\ IF TextLen(Trimmed) > MaxTextLen
           THEN /\ genText.marker
                /\ FragsLen(genText.frags) = MaxTextLen
                /\ genText.frags = CutFrags(Trimmed.frags, MaxTextLen)
           ELSE genText = Trimmed

\* C12 witness: the generation call is out with a truncated text of 6020
\* characters.
C12_Witness ==
    /\ entry = "make_mcqs" /\ pc = "generating"
    /\ TextLen(Trimmed) > MaxTextLen
    /\ genText.marker /\ TextLen(genText) = MaxTextLen + MarkerLen

----------------------------------------------------------------------------
(* Claims about validate_mcq: termination and the answer *)

\* C13 (as stated): validate_mcq terminates on every input; the filler loop
\* reaches four options also when the filler for the current position is
\* already among the cleaned options.
C13_ValidateTerminates ==
    vOut # Pending => vOut.tag \in {"ok", "none", "raise"}

\* The raw answer of vIn, trimmed, matches (exactly or case-insensitively) a
\* raw option that is non-empty and holds no denylisted phrase.
AnswerResolvable ==
    /\ IsDict(vIn) /\ IsStr(vIn.answer)
    /\ \E i \in 1..Len(vIn.options) :
           /\ IsStr(vIn.options[i])
           /\ Lower(vIn.options[i]) = Lower(Strip(vIn.answer))
           /\ ~IsEmpty(vIn.options[i])
           /\ ~IsVague(Lower(vIn.options[i]))

\* C14 (as stated): when the raw answer is resolvable, the answer of the
\* returned record equals the raw answer case-insensitively.
C14_AnswerPreserved ==
    (Returned /\ AnswerResolvable) =>
        Lower(vOut.mcq.answer) = Lower(Strip(vIn.answer))

----------------------------------------------------------------------------
(* Claims about generate_english_mcqs *)

\* The validated forms of the elements of items that validate_mcq accepts,
\* in order.
ValidOnes(items) ==
    LET ok == SelectSeq(items, LAMBDA m : ValidateMcq(m).tag = "ok")
    IN [i \in 1..Len(ok) |-> ValidateMcq(ok[i]).mcq]

\* The generation call was answered with a JSON array.
ArrayParsed ==
    /\ entry \in {"make_mcqs", "make_flashcards", "process_pdf"}
    /\ gen.tag = "json" /\ gen.val.kind = "array"

\* C15 (as stated): for a parsed array generate_english_mcqs returns the
\* validated form of every element (of the first max_questions) that
\* validates, in order; an element that does not is dropped alone.
C15_InvalidDroppedAlone ==
    ArrayParsed =>
        /\ english = ValidOnes(Take(gen.val.items, maxq))
        /\ Len(english) <= maxq

----------------------------------------------------------------------------
(* Claims about the order of provider calls *)

InMakeMcqs == entry \in {"make_mcqs", "make_flashcards", "process_pdf"}

\* Number of calls of one kind issued so far.
Issued(kind) == Cardinality({i \in 1..Len(calls) : calls[i] = kind})

\* Parts of C16 common to the claim as stated and as amended: no call under
\* 50 trimmed characters or without a credential; the generation call comes
\* first and is the only one; translation calls come only after a non-empty
\* validated list for a language other than English, one at a time in index
\* order, never more than one per English MCQ.
CallOrder ==
    /\ (~cred \/ TextLen(Trimmed) < MinTextLen) => calls = <<>>
    /\ \A i \in 1..Len(calls) : calls[i] = (IF i = 1 THEN "generate" ELSE "translate")
    /\ Issued("translate") > 0 =>
        /\ gen.tag = "json" /\ english # <<>>
        /\ Lower(language) # S("english")
        /\ Issued("translate") <= Len(english)
    /\ pc = "translating" => Issued("translate") = Len(translated) + 1
    /\ pc = "generating" => calls = <<"generate">>

\* C16 (as stated): with a credential and 50 trimmed characters or more,
\* exactly one generation call is issued, and when it produced a non-empty
\* validated list for a language other than English exactly one translation
\* call per English MCQ is issued.
C16_OneCallEach ==
    (InMakeMcqs /\ pc = "done" /\ outcome # "http400") =>
        /\ CallOrder
        /\ (cred /\ TextLen(Trimmed) >= MinTextLen) => Issued("generate") = 1
        /\ (english # <<>> /\ Lower(language) # S("english")) =>
               Issued("translate") = Len(english)

\* C16 (amended): as stated, except that a provider set-up that raises
\* (genai.configure / GenerativeModel) ends the step before its call: then
\* no generation call is issued, or no translation call at all.
C16_CallOrder ==
    InMakeMcqs =>
        /\ CallOrder
        /\ (pc = "done" /\ outcome # "http400") =>
            /\ (cred /\ TextLen(Trimmed) >= MinTextLen /\ Issued("generate") = 0) =>
                   gen.tag = "raise"
            /\ (english # <<>> /\ Lower(language) # S("english")) =>
                   \/ Issued("translate") = Len(english) /\ Len(translated) = Len(english)
                   \/ Issued("translate") = 0 /\ translated = <<>>

\* C16 witness: one generation call, then one translation call for each of
\* two English MCQs.
C16_Witness ==
    /\ entry = "make_mcqs" /\ pc = "done"
    /\ Len(english) = 2
    /\ calls = <<"generate", "translate", "translate">>

----------------------------------------------------------------------------
(* Claims about the difficulty of translated MCQs *)

\* C17 (as stated): every MCQ translate_mcqs_to_language returns has the
\* difficulty of the English MCQ at its index.
C17_DifficultyKept ==
    (entry = "translate" /\ pc = "done") =>
        \A i \in 1..Len(mcqs) :
            /\ "difficulty" \in DOMAIN mcqs[i]
            /\ mcqs[i].difficulty = english[i].difficulty

----------------------------------------------------------------------------
(* Claims about generate_short_form_script *)

ShortsDone == entry = "generate_short_form_script" /\ pc = "done"

\* The topic is None, empty or whitespace only.
BlankTopic(t) == t = NullV \/ t.n = 0

\* The sentinel failure message for the topic of the running invocation.
Sentinel ==
    [error |-> "unable to generate a quillium shorts narration",
     topic |-> [topic EXCEPT !.p = 0]]

\* The text is a usable narration: not empty, names the topic (in any
\* casing), has 120..180 words and no banned phrase.
PassesChecks(s) ==
    /\ "words" \in DOMAIN s
    /\ s.words >= MinWords /\ s.words <= MaxWords
    /\ \E u \in s.uses : u.b = topic.b
    /\ \A u \in s.uses : \A phrase \in BannedPhrases : ~PhraseWithin(phrase, u.b)

\* The reply is a response whose text fails one of the checks.
Rejected(reply) ==
    /\ reply.tag = "ok"
    /\ \/ reply.text = NullV
       \/ reply.text.words = 0
       \/ ~PassesChecks(reply.text)

C18_Step ==
    /\ Len(calls') <= MaxAttempts
    /\ \A i \in 1..Len(calls') : calls'[i].prompt.strict = (i = 2)
    /\ Len(calls') > Len(calls) /\ Len(calls) >= 1 => Rejected(response')
    /\ (pc = "scripting" /\ strict_mode /\ Rejected(response'))
           => pc' = "done" /\ outcome' = "returned" /\ script' = Sentinel'
              /\ calls' = calls
    /\ (outcome' = "returned" /\ script' # Sentinel') => PassesChecks(script')

\* C18: generate_short_form_script issues at most two provider calls, the
\* first non-strict and the second strict; the second is issued only when
\* the first response was rejected; a rejected strict attempt ends the loop
\* with the sentinel message; a script is returned only if it passed every
\* check.
C18_BoundedRetry == [][C18_Step]_vars

\* C18 witness: two calls were issued and the strict attempt was rejected
\* for a banned phrase, so the sentinel message came back.
C18_Witness ==
    /\ ShortsDone /\ Len(calls) = 2 /\ strict_mode
    /\ reason = "banned_language" /\ Rejected(response)
    /\ script = Sentinel

\* C19 as worded: generate_short_form_script never raises, whatever the
\* topic and the provider do, and every failure returns the sentinel.
C19_NeverRaises ==
    ShortsDone =>
        /\ outcome = "returned"
        /\ (~cred \/ response.tag = "raise" \/ Rejected(response))
               => script = Sentinel

\* C19: generate_short_form_script raises exactly when the topic is None,
\* empty or whitespace only; for any other topic it returns, and a missing
\* credential, a provider exception or two rejected attempts return the
\* sentinel message.
C19_RaisesOnlyOnBlankTopic ==
    ShortsDone =>
        /\ outcome \in {"raised", "returned"}
        /\ outcome = "raised" <=> BlankTopic(topic)
        /\ outcome = "raised" => calls = <<>> /\ script = NullV
        /\ (outcome = "returned"
              /\ (~cred \/ response.tag = "raise" \/ Rejected(response)))
               => script = Sentinel

\* C19 witness: the first attempt was rejected and the strict call raised;
\* the sentinel message was returned.
C19_Witness ==
    /\ ShortsDone /\ Len(calls) = 2
    /\ response.tag = "raise"
    /\ outcome = "returned" /\ script = Sentinel
====
